---- MODULE Spec2Model ----
(***************************************************************************)
(* Particle swarm optimisation with OpenMP: optimize_using_omp.c and       *)
(* pso_utils.c.                                                            *)
(*                                                                         *)
(* Numbers.  The C code works on floats; here positions and velocities     *)
(* live on the unit grid (fixed point, one unit of resolution) and every   *)
(* product with a coefficient or a normalised random draw is rounded       *)
(* toward zero onto that grid.  Coefficients are kept in hundredths.       *)
(* rand_r is a reduced-width linear congruential generator: the seed is    *)
(* kept modulo SeedMod and the draw, taken from the high part of the seed, *)
(* lies in 0..RandMax.                                                     *)
(*                                                                         *)
(* Threads.  Each "#pragma omp parallel" region has a team of cfg.P        *)
(* workers 0..P-1.  "#pragma omp for" carries no schedule clause; the     *)
(* loops of the two outer regions are split in contiguous blocks (the      *)
(* static schedule GCC and LLVM use by default).  A worker handles one     *)
(* particle per step; workers interleave freely.  Every work-sharing       *)
(* construct ends in its implicit barrier.                                 *)
(***************************************************************************)
EXTENDS Integers, Sequences, FiniteSets, TLC

(***************************************************************************)
(* Bounds of the model                                                     *)
(***************************************************************************)
MaxP == 2
MaxIter == 2
SeedMod == 9
RandMax == 2
\* the reduction on its own: swarm size and finite fitness values
MaxSwarm == 3
MaxFit == 1

(***************************************************************************)
(* Program constants                                                       *)
(***************************************************************************)
\* w = 0.79, c1 = 1.49, c2 = 1.49, in hundredths
W == 79
C1 == 149
C2 == 149
\* INFINITY, larger than any fitness on the grid
INFINITY == 1000

\* swarm sizes of the runs
Sizes == {1, 2}
Functions == {"rastrigin", "sphere"}
Dims == {1}
\* values of time(NULL), reduced modulo SeedMod
BaseSeeds == {0, 1}
\* <<xmin, xmax>>
Domains == {<<-2, 2>>, <<0, 0>>, <<1, 0>>}

VARIABLES
    cfg,          \* arguments of optimize_using_omp, and time(NULL)
    particle,     \* swarm->particle[0..N-1]
    seed,         \* pso_init_omp's seed, shared by its parallel region
    wseed,        \* optimize_using_omp's seed, private to each worker
    pc,           \* position of each worker inside the parallel region
    k,            \* each worker's loop variable i
    region,       \* "init", "iter", "done" or "exit"
    iter,         \* optimize_using_omp's iter
    g,            \* g of the running function (shared in its region)
    singleTaken,  \* the region's single construct has been executed
    ret,          \* value returned by optimize_using_omp
    bestHist,     \* history: the swarm's best fitness at each reduction so far
    \* pso_get_best_fitness_omp on its own
    rfit,           \* fitness of swarm->particle[0..n-1]
    rown,           \* rown[i]: the thread of the inner team that scans particle i
    rnt,            \* num_threads
    rdone,          \* particles scanned so far
    rpc,            \* "scan", "merged", or "idle"
    local_fitness,  \* local_fitness[0..num_threads-1]
    local_g,        \* local_g[0..num_threads-1]
    global_g        \* the value returned

vars == <<cfg, particle, seed, wseed, pc, k, region, iter, g, singleTaken,
          ret, bestHist,
          rfit, rown, rnt, rdone, rpc, local_fitness, local_g, global_g>>

runVars == <<cfg, particle, seed, wseed, pc, k, region, iter, g, singleTaken,
             ret, bestHist>>

redVars == <<rfit, rown, rnt, rdone, rpc, local_fitness, local_g, global_g>>

(***************************************************************************)
(* Arithmetic                                                              *)
(***************************************************************************)
Abs(a) == IF a < 0 THEN -a ELSE a

\* body with e in the place of its parameter, e being evaluated once
Bind(e, body(_)) == CHOOSE r \in {body(d) : d \in {e}} : TRUE

\* a / b rounded toward zero, b > 0
Trunc(a, b) == IF a >= 0 THEN a \div b ELSE -((-a) \div b)

Workers == 0 .. (cfg.P - 1)
Indices == 0 .. (cfg.N - 1)

\* rand_r(&seed): the new seed and the value drawn
RandR(s) ==
    LET n == (7 * s + 6) % SeedMod
    IN  [seed |-> n, val |-> (n * (RandMax + 1)) \div SeedMod]

\* uniform_omp(min, max, &seed)
uniform_omp(min, max, s) ==
    LET r == RandR(s)
    IN  [seed |-> r.seed, val |-> min + Trunc(r.val * (max - min), RandMax)]

(***************************************************************************)
(* Objective functions                                                     *)
(***************************************************************************)
RECURSIVE SumTo(_, _)
\* f[1] + ... + f[n]
SumTo(f, n) == IF n = 0 THEN 0 ELSE SumTo(f, n - 1) + f[n]

\* cos(2 * M_PI * x) on the grid, where x is a whole number
CosTwoPi(x) == 1

\* pso_eval_rastrigin: 10 * dim + sum of x^2 - 10 cos(2 pi x)
pso_eval_rastrigin(x) ==
    10 * Len(x)
      + SumTo([j \in 1 .. Len(x) |-> x[j] * x[j] - 10 * CosTwoPi(x[j])], Len(x))

\* pso_eval_fitness: status 0 and the fitness, or status -1
pso_eval_fitness(function, x) ==
    IF function = "rastrigin"
    THEN [status |-> 0, fitness |-> pso_eval_rastrigin(x)]
    ELSE [status |-> -1, fitness |-> 0]

(***************************************************************************)
(* pso_get_best_fitness_omp                                                *)
(***************************************************************************)
\* a loop body that also takes a fitness equal to the best so far
LocalScanStepOrEqual(lf, lg, tid, i, fitness) ==
    IF fitness <= lf[tid]
    THEN [lf |-> [lf EXCEPT ![tid] = fitness], lg |-> [lg EXCEPT ![tid] = i]]
    ELSE [lf |-> lf, lg |-> lg]

\* body of the parallel loop for particle i, run by thread tid
LocalScanStep(lf, lg, tid, i, fitness) ==
    IF fitness < lf[tid]
    THEN [lf |-> [lf EXCEPT ![tid] = fitness], lg |-> [lg EXCEPT ![tid] = i]]
    ELSE [lf |-> lf, lg |-> lg]

RECURSIVE LocalScan(_, _, _, _, _, _)
\* the parallel loop from particle i on: thread own[i] scans particle i.  The
\* threads write disjoint slots, so any interleaving gives this result.
LocalScan(fit, own, n, i, lf, lg) ==
    IF i >= n THEN [lf |-> lf, lg |-> lg]
    ELSE LET s == LocalScanStep(lf, lg, own[i], i, fit[i])
         IN  LocalScan(fit, own, n, i + 1, s.lf, s.lg)

RECURSIVE MinLoop(_, _, _, _)
MinLoop(input, length, i, res) ==
    IF i >= length THEN res
    ELSE MinLoop(input, length, i + 1, IF res > input[i] THEN input[i] ELSE res)

\* min that forgets to look past the first element
MinFirstOnly(input, length) == input[0]

\* min(input, length)
min(input, length) == MinLoop(input, length, 0, input[0])

RECURSIVE MergeLoop(_, _, _, _, _, _)
MergeLoop(lf, lg, nt, fitness, i, gg) ==
    IF i >= nt THEN gg
    ELSE MergeLoop(lf, lg, nt, fitness, i + 1,
                   IF lf[i] = fitness THEN lg[i] ELSE gg)

\* a merge in which the first thread holding the minimum wins
MergeFirstWins(lf, lg, nt) ==
    lg[CHOOSE i \in 0 .. (nt - 1) :
           /\ lf[i] = min(lf, nt)
           /\ \A j \in 0 .. (nt - 1) : lf[j] = min(lf, nt) => i <= j]

\* the merge: global_g over the num_threads local results
Merge(lf, lg, nt) == MergeLoop(lf, lg, nt, min(lf, nt), 0, lg[0])

\* pso_get_best_fitness_omp(swarm, num_threads), when the threads of the inner
\* team split the n particles as own says and local_g starts out holding garb
pso_get_best_fitness_omp(fit, n, own, nt, garb) ==
    Bind(LocalScan(fit, own, n, 0, [t \in 0 .. (nt - 1) |-> INFINITY], garb),
         LAMBDA s : Merge(s.lf, s.lg, nt))

\* what an uninitialised local_g[] slot may hold: here -1 or an index past
\* the end of every swarm
GarbageInts == {-1, MaxSwarm}

\* Team of the parallel region inside pso_get_best_fitness_omp.  It is entered
\* from a single construct of an active region: the team has one thread when
\* nested parallelism is off and num_threads threads when it is on.
InnerTeams(nt) == {1, nt}

\* The ways a loop over n particles is split among a team of t threads
\* (the schedule is implementation defined); each thread scans in index order.
Schedules(n, t) == [0 .. (n - 1) -> 0 .. (t - 1)]

(***************************************************************************)
(* One particle                                                            *)
(***************************************************************************)
\* a particle_t straight from malloc: no vector allocated yet
RawParticle ==
    [x |-> << >>, v |-> << >>, pbest |-> << >>, fitness |-> 0, g |-> -1,
     st |-> "raw"]

RECURSIVE SampleVec(_, _, _, _, _)
\* for (j = 0; j < dim; j++) vec[j] = uniform_omp(lo, hi, &seed);
SampleVec(lo, hi, dim, vec, s) ==
    IF Len(vec) >= dim THEN [vec |-> vec, seed |-> s]
    ELSE LET u == uniform_omp(lo, hi, s)
         IN  SampleVec(lo, hi, dim, Append(vec, u.val), u.seed)

\* an initialisation that copies the velocity into pbest
InitSampleWrongCopy(dim, xmin, xmax, s) ==
    Bind(SampleVec(xmin, xmax, dim, << >>, s),
         LAMBDA xs :
             Bind(SampleVec(-Abs(xmax - xmin), Abs(xmax - xmin), dim, << >>, xs.seed),
                  LAMBDA vs :
                      [x |-> xs.vec, v |-> vs.vec, pbest |-> vs.vec, seed |-> vs.seed]))

\* pso_init_omp, body of the particle loop up to the fitness evaluation:
\* position in [xmin, xmax], velocity in [-|xmax-xmin|, |xmax-xmin|], pbest = x
InitSample(dim, xmin, xmax, s) ==
    Bind(SampleVec(xmin, xmax, dim, << >>, s),
         LAMBDA xs :
             Bind(SampleVec(-Abs(xmax - xmin), Abs(xmax - xmin), dim, << >>, xs.seed),
                  LAMBDA vs :
                      [x |-> xs.vec, v |-> vs.vec, pbest |-> xs.vec, seed |-> vs.seed]))

\* w * v + c1 * r1 * (pbest - x) + c2 * r2 * (gbest->x - x), r = draw / RAND_MAX
NewVelocity(v, x, pb, gx, r1, r2) ==
    Trunc(W * v * RandMax + C1 * r1 * (pb - x) + C2 * r2 * (gx - x),
          100 * RandMax)

\* a velocity clamp that lets every velocity through
NoClampVelocity(v, xmin, xmax, s) == [seed |-> s, val |-> v]

\* the velocity clamp: a velocity out of range is drawn again
ClampVelocity(v, xmin, xmax, s) ==
    IF (v < -Abs(xmax - xmin)) \/ (v > Abs(xmax - xmin))
    THEN uniform_omp(-Abs(xmax - xmin), Abs(xmax - xmin), s)
    ELSE [seed |-> s, val |-> v]

\* a position clamp that forgets the lower bound
ClampPositionAbove(x, xmin, xmax) == IF x > xmax THEN xmax ELSE x

\* the position clamp
ClampPosition(x, xmin, xmax) ==
    LET a == IF x > xmax THEN xmax ELSE x
    IN  IF a < xmin THEN xmin ELSE a

RECURSIVE UpdateDims(_, _, _, _, _, _, _, _)
\* optimize_using_omp, the loop over the dimensions j..dim of one particle
UpdateDims(x, v, pbest, gx, xmin, xmax, j, s) ==
    IF j > Len(x) THEN [x |-> x, v |-> v, seed |-> s]
    ELSE LET d1 == RandR(s)
             d2 == RandR(d1.seed)
             nv == NewVelocity(v[j], x[j], pbest[j], gx[j], d1.val, d2.val)
         IN  Bind(ClampVelocity(nv, xmin, xmax, d2.seed),
                  LAMBDA cv :
                      UpdateDims([x EXCEPT ![j] = ClampPosition(x[j] + cv.val, xmin, xmax)],
                                 [v EXCEPT ![j] = cv.val],
                                 pbest, gx, xmin, xmax, j + 1, cv.seed))

\* a pbest update that takes every new fitness
UpdatePbestAlways(p, x, v, curr_fitness) ==
    [p EXCEPT !.x = x, !.v = v, !.fitness = curr_fitness, !.pbest = x]

\* a pbest update with the comparison turned around
UpdatePbestOnWorse(p, x, v, curr_fitness) ==
    IF curr_fitness > p.fitness
    THEN [p EXCEPT !.x = x, !.v = v, !.fitness = curr_fitness, !.pbest = x]
    ELSE [p EXCEPT !.x = x, !.v = v]

\* a pbest update that stores the new fitness and forgets to copy the position
UpdatePbestNoCopy(p, x, v, curr_fitness) ==
    IF curr_fitness < p.fitness
    THEN [p EXCEPT !.x = x, !.v = v, !.fitness = curr_fitness]
    ELSE [p EXCEPT !.x = x, !.v = v]

\* "Update pbest": fitness and pbest after evaluating the new position
UpdatePbest(p, x, v, curr_fitness) ==
    IF curr_fitness < p.fitness
    THEN [p EXCEPT !.x = x, !.v = v, !.fitness = curr_fitness, !.pbest = x]
    ELSE [p EXCEPT !.x = x, !.v = v]

\* one pass of the particle loop of optimize_using_omp on particle p, whose
\* gbest currently sits at gx
UpdateStep(p, gx, function, xmin, xmax, s) ==
    Bind(UpdateDims(p.x, p.v, p.pbest, gx, xmin, xmax, 1, s),
         LAMBDA u :
             [p    |-> UpdatePbest(p, u.x, u.v, pso_eval_fitness(function, u.x).fitness),
              seed |-> u.seed])

(***************************************************************************)
(* Work sharing                                                            *)
(***************************************************************************)
\* "#pragma omp for" over n particles, static schedule, team of t: w's block
StaticLo(n, t, w) ==
    LET q == n \div t
        r == n % t
    IN  IF w < r THEN w * (q + 1) ELSE r * (q + 1) + (w - r) * q

StaticHi(n, t, w) ==
    LET q == n \div t
        r == n % t
    IN  StaticLo(n, t, w) + (IF w < r THEN q + 1 ELSE q) - 1

Lo(w) == StaticLo(cfg.N, cfg.P, w)
Hi(w) == StaticHi(cfg.N, cfg.P, w)

\* pc of worker w on entering a loop, and after the pass for particle i;
\* bar names the implicit barrier that ends the loop
EnterLoop(w, loop, bar) == IF Lo(w) > Hi(w) THEN bar ELSE loop
AfterPass(w, i, loop, bar) == IF i + 1 > Hi(w) THEN bar ELSE loop

\* a barrier that holds nobody back, as if the construct carried nowait
BarrierNoWait(here, beyond) == TRUE

\* implicit barrier: w may leave it once every worker has reached it
BarrierOpen(here, beyond) == \A u \in Workers : pc[u] \in ({here} \cup beyond)

(***************************************************************************)
(* Initial state: pso_init_omp has allocated the swarm and forked its team *)
(***************************************************************************)
Configs ==
    [function : Functions, dim : Dims, N : Sizes, P : 1 .. MaxP,
     xmin : {d[1] : d \in Domains}, xmax : {d[2] : d \in Domains},
     maxIter : 0 .. MaxIter, seed : BaseSeeds]

IdleReducer ==
    /\ rfit = << >>
    /\ rown = << >>
    /\ rnt = 0
    /\ rdone = {}
    /\ rpc = "idle"
    /\ local_fitness = << >>
    /\ local_g = << >>
    /\ global_g = -1

Init ==
    /\ cfg \in {c \in Configs : <<c.xmin, c.xmax>> \in Domains}
    /\ particle = [i \in Indices |-> RawParticle]
    /\ seed = cfg.seed
    /\ wseed = [w \in Workers |-> 0]
    /\ pc = [w \in Workers |-> EnterLoop(w, "for1", "bar1")]
    /\ k = [w \in Workers |-> Lo(w)]
    /\ region = "init"
    /\ iter = 0
    /\ g = -1
    /\ singleTaken = FALSE
    /\ ret = -1
    /\ bestHist = << >>
    /\ IdleReducer

(***************************************************************************)
(* pso_init_omp: the parallel region                                       *)
(***************************************************************************)
\* The seed of pso_init_omp is shared by the team and updated without any
\* synchronisation.  While another worker is still inside the loop the value
\* a worker finds in it is unpredictable; otherwise it is the value stored.
SeedSeen(w) ==
    IF \E u \in Workers : u /= w /\ pc[u] = "for1"
    THEN 0 .. (SeedMod - 1)
    ELSE {seed}

\* one pass of the particle loop: seed += i, sample, evaluate, or exit()
InitParticle(w) ==
    /\ region = "init"
    /\ pc[w] = "for1"
    /\ \E seen \in SeedSeen(w) :
      \E smp \in {InitSample(cfg.dim, cfg.xmin, cfg.xmax, (seen + k[w]) % SeedMod)} :
         LET i   == k[w]
             ev  == pso_eval_fitness(cfg.function, smp.x)
             p   == [x |-> smp.x, v |-> smp.v, pbest |-> smp.pbest,
                     fitness |-> 0, g |-> -1, st |-> "sampled"]
         IN  /\ seed' = smp.seed
             /\ IF ev.status < 0
                THEN /\ particle' = [particle EXCEPT ![i] = p]
                     /\ region' = "exit"
                     /\ UNCHANGED <<pc, k>>
                ELSE /\ particle' = [particle EXCEPT ![i] =
                            [p EXCEPT !.fitness = ev.fitness, !.st = "ready"]]
                     /\ pc' = [pc EXCEPT ![w] = AfterPass(w, i, "for1", "bar1")]
                     /\ k' = [k EXCEPT ![w] = i + 1]
                     /\ UNCHANGED region
    /\ UNCHANGED <<cfg, wseed, iter, g, singleTaken, ret, bestHist>>
    /\ UNCHANGED redVars

(***************************************************************************)
(* Both regions: single { g = pso_get_best_fitness_omp }, then broadcast   *)
(***************************************************************************)
Fitnesses == [i \in Indices |-> particle[i].fitness]

\* what pso_get_best_fitness_omp(swarm, nt) may return for these fitnesses:
\* the inner team, its schedule and the garbage in local_g are not fixed
ReducerOutcomes(fit, n, nt) ==
    UNION {UNION {{pso_get_best_fitness_omp(fit, n, own, nt, garb) :
                      garb \in [0 .. (nt - 1) -> GarbageInts]} :
                  own \in Schedules(n, t)} :
           t \in InnerTeams(nt)}

\* the worker that reaches the single construct first runs the reduction
Single(w) ==
    /\ region \in {"init", "iter"}
    /\ pc[w] = "bar1"
    /\ BarrierOpen("bar1", {"bar2"})
    /\ ~singleTaken
    /\ singleTaken' = TRUE
    /\ pc' = [pc EXCEPT ![w] = "bar2"]
    /\ g' \in ReducerOutcomes(Fitnesses, cfg.N, cfg.P)
    /\ bestHist' = Append(bestHist, IF g' \in Indices THEN particle[g'].fitness ELSE INFINITY)
    /\ UNCHANGED <<cfg, particle, seed, wseed, k, region, iter, ret>>
    /\ UNCHANGED redVars

\* every other worker skips the single construct and waits at its barrier
SkipSingle(w) ==
    /\ region \in {"init", "iter"}
    /\ pc[w] = "bar1"
    /\ BarrierOpen("bar1", {"bar2"})
    /\ singleTaken
    /\ pc' = [pc EXCEPT ![w] = "bar2"]
    /\ UNCHANGED <<cfg, particle, seed, wseed, k, region, iter, g, singleTaken,
                   ret, bestHist>>
    /\ UNCHANGED redVars

\* w leaves the barrier of the single construct and enters the second loop
EnterBroadcast(w) ==
    /\ region \in {"init", "iter"}
    /\ pc[w] = "bar2"
    /\ BarrierOpen("bar2", {"for2", "bar3"})
    /\ pc' = [pc EXCEPT ![w] = EnterLoop(w, "for2", "bar3")]
    /\ k' = [k EXCEPT ![w] = Lo(w)]
    /\ UNCHANGED <<cfg, particle, seed, wseed, region, iter, g, singleTaken,
                   ret, bestHist>>
    /\ UNCHANGED redVars

\* a second loop that stores the loop index instead of g
BroadcastIndex(w) ==
    /\ region \in {"init", "iter"}
    /\ pc[w] = "for2"
    /\ LET i == k[w]
       IN  /\ particle' = [particle EXCEPT ![i].g = i]
           /\ pc' = [pc EXCEPT ![w] = AfterPass(w, i, "for2", "bar3")]
           /\ k' = [k EXCEPT ![w] = i + 1]
    /\ UNCHANGED <<cfg, seed, wseed, region, iter, g, singleTaken, ret, bestHist>>
    /\ UNCHANGED redVars

\* a second loop that stops one particle short
BroadcastAllButLast(w) ==
    /\ region \in {"init", "iter"}
    /\ pc[w] = "for2"
    /\ LET i == k[w]
       IN  /\ particle' = IF i = cfg.N - 1 THEN particle
                          ELSE [particle EXCEPT ![i].g = g]
           /\ pc' = [pc EXCEPT ![w] = AfterPass(w, i, "for2", "bar3")]
           /\ k' = [k EXCEPT ![w] = i + 1]
    /\ UNCHANGED <<cfg, seed, wseed, region, iter, g, singleTaken, ret, bestHist>>
    /\ UNCHANGED redVars

\* one pass of the second loop: particle->g = g
Broadcast(w) ==
    /\ region \in {"init", "iter"}
    /\ pc[w] = "for2"
    /\ LET i == k[w]
       IN  /\ particle' = [particle EXCEPT ![i].g = g]
           /\ pc' = [pc EXCEPT ![w] = AfterPass(w, i, "for2", "bar3")]
           /\ k' = [k EXCEPT ![w] = i + 1]
    /\ UNCHANGED <<cfg, seed, wseed, region, iter, g, singleTaken, ret, bestHist>>
    /\ UNCHANGED redVars

(***************************************************************************)
(* optimize_using_omp                                                      *)
(***************************************************************************)
\* the team of pso_init_omp joins, pso_init_omp returns the swarm and
\* optimize_using_omp sets iter = 0, g = -1
ReturnInit ==
    /\ region = "init"
    /\ \A u \in Workers : pc[u] = "bar3"
    /\ region' = "loop"
    /\ iter' = 0
    /\ g' = -1
    /\ pc' = [w \in Workers |-> "out"]
    /\ k' = [w \in Workers |-> 0]
    /\ singleTaken' = FALSE
    /\ UNCHANGED <<cfg, particle, seed, wseed, ret, bestHist>>
    /\ UNCHANGED redVars

\* a loop condition that lets one more iteration through
LoopCondOffByOne == iter <= cfg.maxIter

\* the condition of the while loop
LoopCond == iter < cfg.maxIter

\* while (iter < max_iter): fork the team of the iteration
StartIteration ==
    /\ region = "loop"
    /\ LoopCond
    /\ region' = "iter"
    /\ pc' = [w \in Workers |-> EnterLoop(w, "for1", "bar1")]
    /\ k' = [w \in Workers |-> Lo(w)]
    /\ UNCHANGED <<cfg, particle, seed, wseed, iter, g, singleTaken, ret, bestHist>>
    /\ UNCHANGED redVars

\* The seed of optimize_using_omp is private(seed): each worker's copy is
\* uninitialised on entry to the region, so the first pass of a worker finds
\* an unpredictable value in it.
PrivateSeed(w) ==
    IF k[w] = Lo(w) THEN 0 .. (SeedMod - 1) ELSE {wseed[w]}

\* the worker whose block of the static schedule holds particle q
Owner(q) == CHOOSE u \in Workers : Lo(u) <= q /\ q <= Hi(u)

\* the vectors that take each component from one of a, b, c
Mixes(a, b, c) ==
    {m \in [DOMAIN a -> UNION {{a[j], b[j], c[j]} : j \in DOMAIN a}] :
        \A j \in DOMAIN a : m[j] \in {a[j], b[j], c[j]}}

\* gbest->x as worker w reads it (line 55), gbest being particle q.  The read
\* is not synchronised with the worker that owns q.  While that worker is about
\* to run its pass for q, each component read is the value before the pass,
\* the sum x[j] + v[j] stored by line 61 before the clamps, or the value after
\* the pass; otherwise it is the value stored.
GbestSeen(w, q) ==
    LET u  == Owner(q)
        pq == particle[q]
    IN  IF u /= w /\ pc[u] = "for1" /\ k[u] = q
        THEN UNION {LET st == UpdateDims(pq.x, pq.v, pq.pbest, particle[pq.g].x,
                                         cfg.xmin, cfg.xmax, 1, (s + q) % SeedMod)
                    IN  Mixes(pq.x, [j \in DOMAIN pq.x |-> pq.x[j] + st.v[j]], st.x) :
                    s \in PrivateSeed(u)}
        ELSE {pq.x}

\* one pass of the particle loop: velocity, position, fitness, pbest
UpdateParticle(w) ==
    /\ region = "iter"
    /\ pc[w] = "for1"
    /\ pc' = [pc EXCEPT ![w] = AfterPass(w, k[w], "for1", "bar1")]
    /\ k' = [k EXCEPT ![w] = k[w] + 1]
    /\ \E s \in PrivateSeed(w) : \E gx \in GbestSeen(w, particle[k[w]].g) :
         LET i     == k[w]
             p     == particle[i]
             u     == UpdateStep(p, gx, cfg.function, cfg.xmin, cfg.xmax,
                                 (s + i) % SeedMod)
         IN  /\ particle' = [particle EXCEPT ![i] = u.p]
             /\ wseed' = [wseed EXCEPT ![w] = IF pc'[w] = "bar1" THEN 0 ELSE u.seed]
    /\ UNCHANGED <<cfg, seed, region, iter, g, singleTaken, ret, bestHist>>
    /\ UNCHANGED redVars

\* the team joins at the end of the region; iter++
EndIteration ==
    /\ region = "iter"
    /\ \A u \in Workers : pc[u] = "bar3"
    /\ region' = "loop"
    /\ iter' = iter + 1
    /\ pc' = [w \in Workers |-> "out"]
    /\ k' = [w \in Workers |-> 0]
    /\ singleTaken' = FALSE
    /\ UNCHANGED <<cfg, particle, seed, wseed, g, ret, bestHist>>
    /\ UNCHANGED redVars

\* the loop is over: print the solution if g >= 0, free the swarm, return g
\* (particle keeps the values the swarm held when it was freed)
Return ==
    /\ region = "loop"
    /\ ~LoopCond
    /\ region' = "done"
    /\ ret' = g
    /\ UNCHANGED <<cfg, particle, seed, wseed, pc, k, iter, g, singleTaken, bestHist>>
    /\ UNCHANGED redVars

Next ==
    \/ \E w \in Workers : InitParticle(w)
    \/ \E w \in Workers : Single(w)
    \/ \E w \in Workers : SkipSingle(w)
    \/ \E w \in Workers : EnterBroadcast(w)
    \/ \E w \in Workers : Broadcast(w)
    \/ ReturnInit
    \/ StartIteration
    \/ \E w \in Workers : UpdateParticle(w)
    \/ EndIteration
    \/ Return

Spec == Init /\ [][Next]_vars

\* the steps of worker w, and the steps of the thread that forks and joins
WorkerStep(w) ==
    \/ InitParticle(w)
    \/ Single(w)
    \/ SkipSingle(w)
    \/ EnterBroadcast(w)
    \/ Broadcast(w)
    \/ UpdateParticle(w)

MainStep == ReturnInit \/ StartIteration \/ EndIteration \/ Return

\* every thread of a team keeps running: no worker that can take a step is
\* held back for ever
FairSpec ==
    /\ Spec
    /\ WF_vars(MainStep)
    /\ \A w \in 0 .. (MaxP - 1) : WF_vars(w \in Workers /\ WorkerStep(w))

(***************************************************************************)
(* pso_get_best_fitness_omp on its own: any swarm of fitness values, any   *)
(* inner team and schedule, one particle scanned per step                  *)
(***************************************************************************)
\* finite fitness values, and INFINITY
FitValues == (0 .. MaxFit) \cup {INFINITY}

IdleRun ==
    /\ cfg = << >>
    /\ particle = << >>
    /\ seed = 0
    /\ wseed = << >>
    /\ pc = << >>
    /\ k = << >>
    /\ region = "idle"
    /\ iter = 0
    /\ g = -1
    /\ singleTaken = FALSE
    /\ ret = -1
    /\ bestHist = << >>

\* local_fitness[] set to INFINITY, local_g[] not initialised, team forked
InitReduce ==
    /\ IdleRun
    /\ \E n \in 1 .. MaxSwarm :
         /\ rfit \in [0 .. (n - 1) -> FitValues]
         /\ rnt \in 1 .. MaxP
         /\ \E t \in InnerTeams(rnt) : rown \in Schedules(n, t)
    /\ rdone = {}
    /\ rpc = "scan"
    /\ local_fitness = [t \in 0 .. (rnt - 1) |-> INFINITY]
    /\ local_g \in [0 .. (rnt - 1) -> GarbageInts]
    /\ global_g = -1

\* the particles thread tid still has to scan
Pending(tid) == {i \in DOMAIN rfit : rown[i] = tid /\ i \notin rdone}

\* thread tid runs the loop body for its next particle
ScanStep(tid) ==
    /\ rpc = "scan"
    /\ Pending(tid) /= {}
    /\ LET i == CHOOSE a \in Pending(tid) : \A b \in Pending(tid) : a <= b
           s == LocalScanStep(local_fitness, local_g, tid, i, rfit[i])
       IN  /\ local_fitness' = s.lf
           /\ local_g' = s.lg
           /\ rdone' = rdone \cup {i}
    /\ UNCHANGED <<rfit, rown, rnt, rpc, global_g>>
    /\ UNCHANGED runVars

\* the team has joined: min, merge and return
MergeStep ==
    /\ rpc = "scan"
    /\ rdone = DOMAIN rfit
    /\ global_g' = Merge(local_fitness, local_g, rnt)
    /\ rpc' = "merged"
    /\ UNCHANGED <<rfit, rown, rnt, rdone, local_fitness, local_g>>
    /\ UNCHANGED runVars

NextReduce ==
    \/ \E tid \in 0 .. (rnt - 1) : ScanStep(tid)
    \/ MergeStep

SpecReduce == InitReduce /\ [][NextReduce]_vars

(***************************************************************************)
(* Properties of the reduction                                             *)
(***************************************************************************)
AllFinite == \A i \in DOMAIN rfit : rfit[i] < INFINITY

\* the particles holding the least fitness of the swarm
MinHolders == {i \in DOMAIN rfit : \A j \in DOMAIN rfit : rfit[i] <= rfit[j]}

\* C1: for finite fitness values the index returned by the two-level
\* reduction is a particle of the swarm whose fitness is the minimum over
\* all particles.
ReductionCorrect ==
    (rpc = "merged" /\ AllFinite) => global_g \in MinHolders

\* a reduction over at least two threads and two particles in which the
\* minimum is not held by the first particle
ReductionCorrectWitness ==
    /\ rpc = "merged"
    /\ AllFinite
    /\ rnt >= 2
    /\ \E i \in DOMAIN rfit : rown[i] /= rown[0]
    /\ 0 \notin MinHolders
    /\ global_g \in MinHolders

\* the highest thread whose partition holds a minimum, and the lowest index
\* holding the minimum inside that partition
TopThread == CHOOSE t \in {rown[i] : i \in MinHolders} :
                 \A i \in MinHolders : rown[i] <= t
TieBreakIndex == CHOOSE i \in MinHolders :
                     /\ rown[i] = TopThread
                     /\ \A j \in MinHolders : rown[j] = TopThread => i <= j

\* C2: with the minimum held by several particles the result is fixed by the
\* partition and the fitness values: the lowest index holding the minimum in
\* the partition of the highest thread whose partition holds a minimum.
TieBreak ==
    (rpc = "merged" /\ AllFinite) => global_g = TieBreakIndex

\* the minimum is held in two partitions, and twice in the winning one
TieBreakWitness ==
    /\ rpc = "merged"
    /\ AllFinite
    /\ \E i, j \in MinHolders : rown[i] /= rown[j]
    /\ \E i, j \in MinHolders : i /= j /\ rown[i] = rown[j] /\ rown[i] = TopThread
    /\ global_g = TieBreakIndex

(***************************************************************************)
(* Properties of a run                                                     *)
(***************************************************************************)
ValidDomain == cfg.xmin < cfg.xmax
Range == Abs(cfg.xmax - cfg.xmin)

\* a known objective function and xmin < xmax
ValidConfig == cfg.function = "rastrigin" /\ ValidDomain

\* worker w has finished the pass of the current first loop for particle i
Passed(w, i) ==
    /\ Lo(w) <= i
    /\ i <= Hi(w)
    /\ \/ pc[w] = "for1" /\ k[w] > i
       \/ pc[w] \in {"bar1", "bar2", "for2", "bar3"}

\* C3: with xmin < xmax every position component of every particle lies in
\* [xmin, xmax], after the initialisation and after every update step.
PositionInBounds ==
    ValidDomain =>
        \A i \in Indices : \A j \in DOMAIN particle[i].x :
            /\ cfg.xmin <= particle[i].x[j]
            /\ particle[i].x[j] <= cfg.xmax

\* an update pass has left a particle on the lower bound, still moving down
PositionInBoundsWitness ==
    /\ ValidDomain
    /\ region = "iter"
    /\ \E w \in Workers : \E i \in Indices :
         /\ Passed(w, i)
         /\ particle[i].x[1] = cfg.xmin
         /\ particle[i].v[1] < 0

\* C4: every velocity component of every particle lies in
\* [-|xmax - xmin|, |xmax - xmin|], after the initialisation and after every
\* update step.
VelocityInBounds ==
    \A i \in Indices : \A j \in DOMAIN particle[i].v :
        /\ -Range <= particle[i].v[j]
        /\ particle[i].v[j] <= Range

\* an update pass has left a particle with a velocity on the edge of the range
VelocityInBoundsWitness ==
    /\ region = "iter"
    /\ Range > 0
    /\ \E w \in Workers : \E i \in Indices :
         /\ Passed(w, i)
         /\ Abs(particle[i].v[1]) = Range

\* C5: no step raises the stored fitness of a particle.
FitnessNonIncreasing ==
    [][\A i \in DOMAIN particle :
          (particle[i].st = "ready" /\ i \in DOMAIN particle')
              => particle'[i].fitness <= particle[i].fitness]_vars

\* a particle has moved to a position worse than its personal best and has
\* kept the fitness of the personal best
FitnessNonIncreasingWitness ==
    /\ region = "iter"
    /\ \E w \in Workers : \E i \in Indices :
         /\ Passed(w, i)
         /\ particle[i].x /= particle[i].pbest
         /\ particle[i].fitness < pso_eval_fitness(cfg.function, particle[i].x).fitness

\* C6: the fitness of the particle the reduction selects never rises from one
\* reduction to the next, the reduction of the initialisation included.
BestNonIncreasing ==
    \A m, n \in DOMAIN bestHist : m <= n => bestHist[n] <= bestHist[m]

\* the swarm's best fitness has come down since the initialisation
BestNonIncreasingWitness ==
    /\ Len(bestHist) >= 3
    /\ bestHist[2] <= bestHist[1]
    /\ bestHist[3] < bestHist[2]

(***************************************************************************)
(* The run in which the workers take their turns in order, no update of    *)
(* the shared seed is lost and every uninitialised seed holds 0            *)
(***************************************************************************)
RECURSIVE RefInitLoop(_, _, _, _)
RefInitLoop(c, i, sw, s) ==
    IF i >= c.N THEN sw
    ELSE LET smp == InitSample(c.dim, c.xmin, c.xmax, (s + i) % SeedMod)
             ev  == pso_eval_fitness(c.function, smp.x)
             p   == [x |-> smp.x, v |-> smp.v, pbest |-> smp.pbest,
                     fitness |-> ev.fitness, g |-> -1, st |-> "ready"]
         IN  RefInitLoop(c, i + 1, [sw EXCEPT ![i] = p], smp.seed)

RefReduce(c, sw) ==
    LET gg == pso_get_best_fitness_omp([i \in 0 .. (c.N - 1) |-> sw[i].fitness],
                  c.N, [i \in 0 .. (c.N - 1) |-> 0], c.P,
                  [t \in 0 .. (c.P - 1) |-> -1])
    IN  [i \in 0 .. (c.N - 1) |-> [sw[i] EXCEPT !.g = gg]]

RECURSIVE RefUpdateLoop(_, _, _, _)
RefUpdateLoop(c, i, sw, s) ==
    IF i >= c.N THEN sw
    ELSE LET first == \E w \in 0 .. (c.P - 1) : StaticLo(c.N, c.P, w) = i
             s0    == IF first THEN 0 ELSE s
             u     == UpdateStep(sw[i], sw[sw[i].g].x, c.function, c.xmin, c.xmax,
                                 (s0 + i) % SeedMod)
         IN  RefUpdateLoop(c, i + 1, [sw EXCEPT ![i] = u.p], u.seed)

RECURSIVE RefSwarm(_, _)
\* the swarm of that run after n iterations
RefSwarm(c, n) ==
    IF n = 0
    THEN RefReduce(c, RefInitLoop(c, 0, [i \in 0 .. (c.N - 1) |-> RawParticle], c.seed))
    ELSE RefReduce(c, RefUpdateLoop(c, 0, RefSwarm(c, n - 1), 0))

\* C7: runs with the same configuration and the same base seed go through
\* the same swarms: after the initialisation and after every iteration the
\* swarm is the one of the run above.
Determinism ==
    region = "loop" => particle = RefSwarm(cfg, iter)

\* C8: when the unknown objective function is reported, no particle has any
\* vector allocated or sampled.
FailFast ==
    region = "exit" => \A i \in Indices : particle[i].st = "raw"

\* C9: a configuration with xmin >= xmax creates no particle state, never
\* reaches the update loop and returns no index.
InvalidConfigRejected ==
    ~ValidDomain =>
        /\ \A i \in Indices : particle[i].st = "raw"
        /\ region \notin {"loop", "iter", "done"}

\* C10 as claimed: for every maxIter >= 0 the index returned is the
\* globalBestRef of every particle and lies in 0..N-1.
ResultIsGlobalBest ==
    region = "done" =>
        /\ ret \in Indices
        /\ \A i \in Indices : particle[i].g = ret

\* C10: for maxIter >= 1 the index returned is the one the last reduction
\* produced, the globalBestRef of every particle, and lies in 0..N-1; for
\* maxIter = 0 the run returns -1 and the index of the initial reduction is
\* held by the particles only.
ResultIsLastReduction ==
    region = "done" =>
        IF cfg.maxIter >= 1
        THEN /\ ret = g
             /\ ret \in Indices
             /\ \A i \in Indices : particle[i].g = ret
             /\ particle[ret].fitness = bestHist[Len(bestHist)]
        ELSE /\ ret = -1
             /\ \A i \in Indices : particle[i].g \in Indices
             /\ \A i, j \in Indices : particle[i].g = particle[j].g

\* a run of at least one iteration has returned, on a swarm of two particles
ResultIsLastReductionWitness ==
    /\ region = "done"
    /\ cfg.maxIter >= 1
    /\ cfg.N >= 2
    /\ ret \in Indices
    /\ particle[0].g = ret

\* C11: under fair scheduling of the workers a run with a valid configuration
\* reaches the return, and at the return exactly maxIter iterations have been
\* run: iter = maxIter, one reduction per iteration after the one of the
\* initialisation, and every worker past the last barrier.
Termination ==
    /\ ValidConfig ~> (region = "done")
    /\ [](region = "done" =>
            /\ iter = cfg.maxIter
            /\ Len(bestHist) = cfg.maxIter + 1
            /\ \A w \in Workers : pc[w] = "out")

\* a run of MaxIter iterations with two workers or more has returned
TerminationWitness ==
    /\ ValidConfig
    /\ region = "done"
    /\ cfg.P >= 2
    /\ cfg.N >= 2
    /\ cfg.maxIter = MaxIter
    /\ iter = MaxIter

\* pso_init_omp has run its last barrier and is about to return the swarm
InitComplete == region = "init" /\ \A w \in Workers : pc[w] = "bar3"

\* C12: when the initialisation completes, every particle's fitness is the
\* score of its position, its pbest is its position, and the g of every
\* particle is the index the reduction of the initialisation returned, an
\* index of 0..N-1 whose fitness is the least of the swarm.
InitPostState ==
    InitComplete =>
        /\ g \in Indices
        /\ \A i \in Indices :
             /\ particle[i].st = "ready"
             /\ particle[i].fitness
                    = pso_eval_fitness(cfg.function, particle[i].x).fitness
             /\ particle[i].pbest = particle[i].x
             /\ particle[i].g = g
             /\ particle[g].fitness <= particle[i].fitness

\* the initialisation of two particles by two workers has completed, and the
\* second particle is the better one
InitPostStateWitness ==
    /\ InitComplete
    /\ cfg.N = 2
    /\ cfg.P = 2
    /\ particle[1].fitness < particle[0].fitness
    /\ particle[0].g = 1

\* worker u may still write particle q in the update loop under way
MayWrite(u, q) ==
    /\ region = "iter"
    /\ pc[u] = "for1"
    /\ k[u] <= q
    /\ q <= Hi(u)

\* C13: in the update loop no worker is about to read a particle that another
\* worker may still write: the particle the pass of worker w reads besides
\* its own is never in the unfinished part of another worker's block.
NoUpdateRace ==
    \A w, u \in Workers :
        (region = "iter" /\ pc[w] = "for1" /\ u /= w)
            => ~MayWrite(u, particle[k[w]].g)

RECURSIVE OwnSeedBefore(_, _, _)
\* the seed a worker holds before pass i of its block lo.. when the seed is
\* its own copy of the base seed
OwnSeedBefore(c, lo, i) ==
    IF i = lo THEN c.seed
    ELSE InitSample(c.dim, c.xmin, c.xmax,
                    (OwnSeedBefore(c, lo, i - 1) + (i - 1)) % SeedMod).seed

\* what that worker draws for particle i
OwnSample(c, lo, i) ==
    InitSample(c.dim, c.xmin, c.xmax, (OwnSeedBefore(c, lo, i) + i) % SeedMod)

\* C14: the random stream of a worker is its own: whatever the other workers
\* do, the values a worker draws for the particles of its block during the
\* initialisation are those of a stream no other worker reads or writes.
RandomStreamPrivate ==
    region = "init" =>
        \A w \in Workers : \A i \in Lo(w) .. Hi(w) :
            particle[i].st /= "raw" =>
                /\ particle[i].x = OwnSample(cfg, Lo(w), i).x
                /\ particle[i].v = OwnSample(cfg, Lo(w), i).v

\* the phase worker w is in: the update loop (or first loop of the
\* initialisation), the reduction, or the broadcast
InUpdate(w) == pc[w] = "for1"
InBroadcast(w) == pc[w] \in {"for2", "bar3"}

\* C15: in every parallel region the reduction starts only when every worker
\* has finished its share of the first loop, the broadcast starts only when
\* the reduction has been run and every worker has passed its barrier, and
\* no worker is in the update loop while another still broadcasts.
PhaseOrdering ==
    region \in {"init", "iter"} =>
        \A w, u \in Workers :
            /\ singleTaken => ~InUpdate(u)
            /\ InBroadcast(w) => (singleTaken /\ pc[u] \in {"bar2", "for2", "bar3"})
            /\ InUpdate(w) => pc[u] \in {"for1", "bar1"}

\* in the second iteration a worker that has finished its share of the update
\* loop is held at the barrier while another worker is still updating
PhaseOrderingWitness ==
    /\ region = "iter"
    /\ iter >= 1
    /\ ~singleTaken
    /\ \E w, u \in Workers : pc[w] = "bar1" /\ pc[u] = "for1"

\* some worker is in the update loop of an iteration, where particle->g is read
ReadingGlobalBest == region = "iter" /\ \E w \in Workers : pc[w] = "for1"

\* what a step may do to the g of the particles: the return of pso_init_omp
\* leaves them all equal to its g, and only a pass of a broadcast loop
\* changes any of them
GlobalBestWritten ==
    /\ (region = "init" /\ region' = "loop")
           => (\A i \in Indices : particle'[i].g = g)
    /\ (\E i \in Indices : particle'[i].g /= particle[i].g)
           => (\E w \in Workers : pc[w] = "for2")

\* C16: while any worker is in the update loop, every particle holds the same
\* g, an index of 0..N-1, fixed before the iteration began: no reduction of
\* the iteration under way has run, from the second iteration on it is the g
\* of the reduction of the iteration before, and in the first iteration it is
\* the g pso_init_omp held on return.  The g of a particle is written by the
\* broadcast loops only.
BroadcastInvariant ==
    /\ [](ReadingGlobalBest =>
             /\ ~singleTaken
             /\ (\A i \in Indices : particle[i].g \in Indices)
             /\ (\A i, j \in Indices : particle[i].g = particle[j].g)
             /\ (iter >= 1 => \A i \in Indices : particle[i].g = g))
    /\ [][GlobalBestWritten]_vars

\* in the second iteration a worker is in the update loop of a swarm of two
\* particles whose global best is the second particle, found by the first
\* iteration
BroadcastInvariantWitness ==
    /\ ReadingGlobalBest
    /\ iter >= 1
    /\ cfg.N = 2
    /\ g = 1
    /\ particle[0].g = 1
    /\ bestHist[2] < bestHist[1]

\* the score of a position under the objective function of the run
Score(x) == pso_eval_fitness(cfg.function, x).fitness

\* what a step does to the personal best of particle i
PbestStep(i) ==
    /\ particle'[i].st = "ready"
          => particle'[i].fitness = Score(particle'[i].pbest)
    /\ particle[i].st = "ready"
          => IF Score(particle'[i].x) < particle[i].fitness
             THEN /\ particle'[i].fitness = Score(particle'[i].x)
                  /\ particle'[i].pbest = particle'[i].x
             ELSE /\ particle'[i].fitness = particle[i].fitness
                  /\ particle'[i].pbest = particle[i].pbest

\* C18: after the initialisation and after every update pass the fitness of
\* a particle is the score of its pbest; a step changes fitness and pbest
\* together, to the new score and the new position, exactly when the new
\* score is strictly less than the stored fitness, and leaves both as they
\* are otherwise.
PbestConsistency ==
    [][(region \in {"init", "iter"}) => (\A i \in Indices : PbestStep(i))]_vars

\* a particle has moved to another position of the same score as its personal
\* best, and has kept its personal best
PbestConsistencyWitness ==
    /\ region = "iter"
    /\ \E w \in Workers : \E i \in Indices :
         /\ Passed(w, i)
         /\ particle[i].x /= particle[i].pbest
         /\ Score(particle[i].x) = particle[i].fitness

\* C20: in a run with a valid configuration, whenever a worker is about to
\* run an update pass, the position of gbest that enters the velocity update
\* is the one at which the fitness stored for gbest was attained: its score
\* is that fitness.
GlobalBestIsPersonalBest ==
    \A w \in Workers :
        (ValidConfig /\ region = "iter" /\ pc[w] = "for1") =>
            Score(particle[particle[k[w]].g].x)
                = particle[particle[k[w]].g].fitness

(***************************************************************************)
(* More properties of the reduction                                        *)
(***************************************************************************)
\* some particle has a fitness below INFINITY
MinFinite == \E i \in DOMAIN rfit : rfit[i] < INFINITY

\* C17 as claimed: with num_threads = 1 the reduction returns the highest
\* index among the particles that hold the minimum (last equal wins).
SingleThreadLastWins ==
    (rpc = "merged" /\ rnt = 1 /\ MinFinite) =>
        /\ global_g \in MinHolders
        /\ \A i \in MinHolders : i <= global_g

\* C17: with num_threads = 1 the reduction is one scan of the whole swarm
\* that returns the lowest index among the particles that hold the minimum
\* (first equal wins).
SingleThreadFirstWins ==
    (rpc = "merged" /\ rnt = 1 /\ MinFinite) =>
        /\ global_g \in MinHolders
        /\ \A i \in MinHolders : global_g <= i

\* one thread has scanned a swarm in which the minimum is held twice, but not
\* by the first particle, and the lower of the two indices is returned
SingleThreadFirstWinsWitness ==
    /\ rpc = "merged"
    /\ rnt = 1
    /\ MinFinite
    /\ 0 \notin MinHolders
    /\ Cardinality(MinHolders) >= 2
    /\ \A i \in MinHolders : global_g <= i

\* C19: for every swarm, team and schedule, a team larger than the swarm
\* included, the reduction returns an index of the swarm.
ReducerIndexValid ==
    rpc = "merged" => global_g \in DOMAIN rfit

====
